---- MODULE Spec2Model ----
(***************************************************************************)
(* NBA dashboard: feature pipeline (utils/feature_engineer.py), data       *)
(* loading (utils/data_loader.py), training and prediction                 *)
(* (utils/model_utils.py) and the pages that call them.                    *)
(*                                                                         *)
(* Numbers are exact rationals [n, d]; d = 0 is the null value (NaN).      *)
(* Text is a sequence of one-character strings.  A data frame is a record  *)
(* [columns, rows]: the ordered column names and the rows, each a function *)
(* from the column names to cells.                                         *)
(***************************************************************************)
EXTENDS Integers, Sequences, FiniteSets, TLC

\* ------------------------------------------------------------------ bounds
\* Games whose every subset, in every order, the game-log source may return.
PermGames == 3
\* Longest game log the source returns (longer logs come most recent first).
MaxGames == 11
\* Largest window add_rolling_features is called with on its own.
MaxWindow == 4
\* Times a page script is run over for the same player.
MaxRuns == 2
\* Longest static player list.
MaxPlayers == 3
\* Largest row limit get_player_gamelog is called with on its own.
MaxLastN == 3

\* ---------------------------------------------------------------- binding
\* F applied to the values of its arguments, each evaluated once.
Let1(F(_), a) == CHOOSE y \in {F(x) : x \in {a}} : TRUE
Let2(F(_, _), a, b) ==
    CHOOSE y \in {F(x[1], x[2]) : x \in {<<a, b>>}} : TRUE
Let3(F(_, _, _), a, b, c) ==
    CHOOSE y \in {F(x[1], x[2], x[3]) : x \in {<<a, b, c>>}} : TRUE
Let4(F(_, _, _, _), a, b, c, d) ==
    CHOOSE y \in {F(x[1], x[2], x[3], x[4]) : x \in {<<a, b, c, d>>}} : TRUE
Let5(F(_, _, _, _, _), a, b, c, d, e) ==
    CHOOSE y \in {F(x[1], x[2], x[3], x[4], x[5]) :
                     x \in {<<a, b, c, d, e>>}} : TRUE

\* ----------------------------------------------------------------- numbers
Abs(x) == Let1(LAMBDA v : IF v < 0 THEN -v ELSE v, x)

RECURSIVE GCD(_, _)
GCD(a0, b0) ==
    Let2(LAMBDA a, b :
            IF b = 0 THEN a ELSE GCD(b, a % b),
         a0, b0)

\* A cell of a frame: a number (d = 0: NaN), a text, a timestamp or None.
NaN == [k |-> "num", n |-> 0, d |-> 0, s |-> <<>>]
None == [k |-> "none", n |-> 0, d |-> 0, s |-> <<>>]
NumCell(n0, d0) ==
    Let2(LAMBDA n, d :
            IF d = 0 THEN NaN
            ELSE Let1(LAMBDA g : [k |-> "num", n |-> n \div g, d |-> d \div g,
                                  s |-> <<>>],
                      GCD(Abs(n), d)),
         n0, d0)
Int2Cell(i) == NumCell(i, 1)
StrCell(s) == [k |-> "str", n |-> 0, d |-> 1, s |-> s]
DateCell(day) == [k |-> "date", n |-> day, d |-> 1, s |-> <<>>]

IsNull(c) == Let1(LAMBDA v : (v.k = "num" /\ v.d = 0) \/ v.k = "none", c)

\* Float arithmetic of pandas/numpy on cells: NaN propagates.
Add(x0, y0) ==
    Let2(LAMBDA x, y :
            IF IsNull(x) \/ IsNull(y) THEN NaN
                    ELSE NumCell(x.n * y.d + y.n * x.d, x.d * y.d),
         x0, y0)
Sub(x0, y0) ==
    Let2(LAMBDA x, y :
            IF IsNull(x) \/ IsNull(y) THEN NaN
                    ELSE NumCell(x.n * y.d - y.n * x.d, x.d * y.d),
         x0, y0)
Mul(x0, y0) ==
    Let2(LAMBDA x, y :
            IF IsNull(x) \/ IsNull(y) THEN NaN
                    ELSE NumCell(x.n * y.n, x.d * y.d),
         x0, y0)
\* x / y of two float columns; the callers replace a zero divisor by NaN.
Div(x0, y0) ==
    Let2(LAMBDA x, y :
            IF IsNull(x) \/ IsNull(y) \/ y.n = 0 THEN NaN
                    ELSE IF y.n < 0 THEN NumCell(-(x.n * y.d), x.d * (-y.n))
                    ELSE NumCell(x.n * y.d, x.d * y.n),
         x0, y0)
Less(x0, y0) == Let2(LAMBDA x, y : x.n * y.d < y.n * x.d, x0, y0)

\* round(x, 1) of Python: the nearest tenth, a tie going to the even tenth.
Round1(x0) ==
    Let1(LAMBDA x :
            IF IsNull(x) THEN NaN
            ELSE LET q  == (10 * x.n) \div x.d
                     r2 == 2 * ((10 * x.n) % x.d)
                     up == r2 > x.d \/ (r2 = x.d /\ q % 2 = 1)
                 IN  NumCell(IF up THEN q + 1 ELSE q, 10),
         x0)

\* ---------------------------------------------------------------- sequences
RECURSIVE SumSeq(_)
SumSeq(s0) ==
    Let1(LAMBDA s :
            IF s = <<>> THEN Int2Cell(0)
                 ELSE Add(Head(s), SumSeq(Tail(s))),
         s0)

Range(s0) == Let1(LAMBDA s : {s[i] : i \in DOMAIN s}, s0)
Min2(a0, b0) == Let2(LAMBDA a, b : IF a < b THEN a ELSE b, a0, b0)
Max2(a0, b0) == Let2(LAMBDA a, b : IF a > b THEN a ELSE b, a0, b0)
Contains(s0, x0) == Let2(LAMBDA s, x : \E i \in DOMAIN s : s[i] = x, s0, x0)

\* [x for x in s if x in keep], order kept.
SelectSeqBy(s0, keep0) ==
    Let2(LAMBDA s, keep : SelectSeq(s, LAMBDA x : x \in keep), s0, keep0)

\* -------------------------------------------------------------------- text
\* The characters the model's texts use, in code-point order.
Ascii == << " ", ",", ".", "0", "1", "2", "3", "4", "5", "6", "7", "8", "9",
            "@", "A", "B", "C", "D", "E", "F", "G", "H", "I", "J", "K", "L",
            "M", "N", "O", "P", "Q", "R", "S", "T", "U", "V", "W", "X", "Y",
            "Z", "_", "a", "b", "c", "d", "e", "f", "g", "h", "i", "j", "k",
            "l", "m", "n", "o", "p", "q", "r", "s", "t", "u", "v", "w", "x",
            "y", "z" >>
Ord(c) == CHOOSE i \in DOMAIN Ascii : Ascii[i] = c
Digits == << "0", "1", "2", "3", "4", "5", "6", "7", "8", "9" >>
DigitVal(c) == (CHOOSE i \in DOMAIN Digits : Digits[i] = c) - 1
\* \w of Python's re on these texts.
WordChars == Range(Ascii) \ {" ", ",", ".", "@"}

\* a < b of two Python strings.
StrLess(a0, b0) ==
    Let2(LAMBDA a, b :
            \/ \E i \in 1..Min2(Len(a), Len(b)) :
                  /\ SubSeq(a, 1, i - 1) = SubSeq(b, 1, i - 1)
                  /\ Ord(a[i]) < Ord(b[i])
            \/ Len(a) < Len(b) /\ a = SubSeq(b, 1, Len(a)),
         a0, b0)

\* ------------------------------------------------- difflib.get_close_matches
\* Length of the common run of a[i..ahi] and b[j..bhi] starting at i and j.
RunLen(a, b, i, j, ahi, bhi) ==
    CHOOSE k \in 0..Min2(ahi - i + 1, bhi - j + 1) :
        /\ \A m \in 0..(k - 1) : a[i + m] = b[j + m]
        /\ k = Min2(ahi - i + 1, bhi - j + 1) \/ a[i + k] # b[j + k]

\* SequenceMatcher.find_longest_match (no junk): the longest block, of those
\* the one starting earliest in a, of those the one starting earliest in b.
FindLongestMatch(a0, b0, alo0, ahi0, blo0, bhi0) ==
    Let3(LAMBDA a, b, r :
            LET alo == r[1]
                ahi == r[2]
                blo == r[3]
                bhi == r[4]
                cand == {<<i, j, RunLen(a, b, i, j, ahi, bhi)>> :
                            i \in alo..ahi, j \in blo..bhi}
                Pick(c) ==
                    IF \A m \in c : m[3] = 0 THEN <<alo, blo, 0>>
                    ELSE CHOOSE m \in c :
                            \A o \in c :
                               \/ o[3] < m[3]
                               \/ o[3] = m[3] /\ o[1] > m[1]
                               \/ o[3] = m[3] /\ o[1] = m[1] /\ o[2] >= m[2]
            IN  Let1(Pick, cand),
         a0, b0, <<alo0, ahi0, blo0, bhi0>>)

RECURSIVE MatchingChars(_, _, _, _, _, _)
\* Sum of the sizes of SequenceMatcher.get_matching_blocks within the ranges.
MatchingChars(a0, b0, alo0, ahi0, blo0, bhi0) ==
    Let3(LAMBDA a, b, r :
            IF r[1] > r[2] \/ r[3] > r[4] THEN 0
            ELSE Let1(LAMBDA m :
                        IF m[3] = 0 THEN 0
                        ELSE m[3]
                             + MatchingChars(a, b, r[1], m[1] - 1,
                                             r[3], m[2] - 1)
                             + MatchingChars(a, b, m[1] + m[3], r[2],
                                             m[2] + m[3], r[4]),
                      FindLongestMatch(a, b, r[1], r[2], r[3], r[4])),
         a0, b0, <<alo0, ahi0, blo0, bhi0>>)

\* SequenceMatcher(None, a, b).ratio() = 2.0 * M / T, as the pair <<2M, T>>.
Ratio(a0, b0) ==
    Let2(LAMBDA a, b :
            IF Len(a) + Len(b) = 0 THEN <<1, 1>>
            ELSE <<2 * MatchingChars(a, b, 1, Len(a), 1, Len(b)),
                   Len(a) + Len(b)>>,
         a0, b0)

\* ratio >= cutoff, the cutoff given in tenths.
RatioAtLeast(r0, cutoff10) ==
    Let1(LAMBDA r : 10 * r[1] >= cutoff10 * r[2], r0)

\* get_close_matches(word, possibilities, n=1, cutoff): <<>> or <<best>>; the
\* best is the largest (score, text) pair.
GetCloseMatches(word0, possibilities0, cutoff10) ==
    LET Better(p, q) ==
            \/ p.r[1] * q.r[2] > q.r[1] * p.r[2]
            \/ p.r[1] * q.r[2] = q.r[1] * p.r[2] /\ StrLess(q.x, p.x)
        Best(ok) ==
            IF ok = {} THEN <<>>
            ELSE <<(CHOOSE p \in ok : \A q \in ok \ {p} : Better(p, q)).x>>
        Do(word, possibilities) ==
            Let1(LAMBDA scored :
                    Let1(Best, {p \in scored : RatioAtLeast(p.r, cutoff10)}),
                 {[x |-> x, r |-> Ratio(x, word)] : x \in Range(possibilities)})
    IN  Let2(Do, word0, possibilities0)

\* ------------------------------------------------------------- data frames
\* pd.DataFrame()
EmptyFrame == [columns |-> <<>>, rows |-> <<>>]
\* df.empty
IsEmpty(df0) == Let1(LAMBDA df : df.columns = <<>> \/ df.rows = <<>>, df0)
HasColumn(df, c) == Contains(df.columns, c)
Column(df0, c0) ==
    Let2(LAMBDA df, c : [i \in DOMAIN df.rows |-> df.rows[i][c]], df0, c0)

\* The frame of the given columns, each row cut down to them.
Frame(cols0, rows0) ==
    Let2(LAMBDA cols, rows :
            [columns |-> cols,
             rows |-> [i \in DOMAIN rows |-> [x \in Range(cols) |-> rows[i][x]]]],
         cols0, rows0)

\* df[c] = vals: an existing column is overwritten in place, a new one is
\* appended as the last column.
SetColumn(df0, c0, vals0) ==
    Let3(LAMBDA df, c, vals :
            Frame(IF HasColumn(df, c) THEN df.columns ELSE Append(df.columns, c),
                  [i \in DOMAIN df.rows |->
                      [x \in Range(df.columns) \cup {c} |->
                          IF x = c THEN vals[i] ELSE df.rows[i][x]]]),
         df0, c0, vals0)

\* df[[c for c in df.columns if c in keep]]
KeepColumns(df0, keep0) ==
    Let2(LAMBDA df, keep :
            Frame(SelectSeqBy(df.columns, keep), df.rows),
         df0, keep0)

\* df.drop(columns=[c for c in names if c in df.columns], errors="ignore")
DropColumns(df0, names) ==
    Let1(LAMBDA df : KeepColumns(df, Range(df.columns) \ names), df0)

\* df.rename(columns=map): map is a function on the names it renames.
RenameColumns(df0, map) ==
    LET New(c) == IF c \in DOMAIN map THEN map[c] ELSE c
        Do(df) ==
            [columns |-> [i \in DOMAIN df.columns |-> New(df.columns[i])],
             rows |-> [i \in DOMAIN df.rows |->
                 [x \in {New(c) : c \in Range(df.columns)} |->
                     df.rows[i][CHOOSE c \in Range(df.columns) : New(c) = x]]]]
    IN  Let1(Do, df0)

\* A column is of a number dtype when every cell of it is a number or NaN.
IsNumericColumn(df, c) == \A i \in DOMAIN df.rows : df.rows[i][c].k = "num"

\* df.select_dtypes(include=[np.number])
SelectNumeric(df0) ==
    Let1(LAMBDA df :
            KeepColumns(df, {c \in Range(df.columns) : IsNumericColumn(df, c)}),
         df0)

\* No fill: nulls stay.
FillNot(df0) == df0

\* df.fillna(0)
FillNa0(df0) ==
    Let1(LAMBDA df :
            [columns |-> df.columns,
             rows |-> [i \in DOMAIN df.rows |->
                          [x \in Range(df.columns) |->
                              IF IsNull(df.rows[i][x]) THEN Int2Cell(0)
                              ELSE df.rows[i][x]]]],
         df0)

\* df.head(n) and df.tail(n)
HeadRows(df0, n) ==
    Let1(LAMBDA df : [columns |-> df.columns,
                      rows |-> SubSeq(df.rows, 1, Min2(n, Len(df.rows)))],
         df0)
TailRows(df0, n) ==
    Let1(LAMBDA df : [columns |-> df.columns,
                      rows |-> SubSeq(df.rows, Max2(1, Len(df.rows) - n + 1),
                                      Len(df.rows))],
         df0)

\* df.sort_values(c, ascending=True) on a timestamp column whose values
\* differ: each row goes to the place its rank gives it.
SortValues(df0, c) ==
    Let1(LAMBDA df :
            LET rank(i) == Cardinality({j \in DOMAIN df.rows :
                                           df.rows[j][c].n < df.rows[i][c].n})
            IN  [columns |-> df.columns,
                 rows |-> [p \in DOMAIN df.rows |->
                     df.rows[CHOOSE i \in DOMAIN df.rows : rank(i) = p - 1]]],
         df0)

\* Series.mean(): NaN cells are skipped; NaN when nothing is left.
Mean(vals0) ==
    Let1(LAMBDA kept :
            IF kept = <<>> THEN NaN
                    ELSE Div(SumSeq(kept), Int2Cell(Len(kept))),
         SelectSeq(vals0, LAMBDA v : ~IsNull(v)))

\* ------------------------------------------- the stats API's player game log
Months == << <<"J","A","N">>, <<"F","E","B">>, <<"M","A","R">>,
             <<"A","P","R">>, <<"M","A","Y">>, <<"J","U","N">>,
             <<"J","U","L">>, <<"A","U","G">>, <<"S","E","P">>,
             <<"O","C","T">>, <<"N","O","V">>, <<"D","E","C">> >>

TwoDigits(v) == <<Digits[(v \div 10) + 1], Digits[(v % 10) + 1]>>

\* Game g of the season is played in month 10, 11, 12, 1, 2, ... two games
\* a month: the text order of the dates is not their calendar order.
GameMonth(g) == (((g - 1) \div 2 + 9) % 12) + 1
GameYear(g) == IF GameMonth(g) >= 10 THEN 2024 ELSE 2025
GameDay(g) == IF g % 2 = 1 THEN 3 + (g % 5) ELSE 17 + (g % 7)

\* GAME_DATE as the API sends it: "NOV 02, 2024".
GameDateText(g) ==
    Months[GameMonth(g)] \o <<" ">> \o TwoDigits(GameDay(g)) \o <<",", " ">>
    \o TwoDigits(GameYear(g) \div 100) \o TwoDigits(GameYear(g) % 100)

Opponents == << <<"B","O","S">>, <<"U","T","A">>, <<"M","I","A">> >>

\* MATCHUP as the API sends it: "LAL vs. BOS" at home, "LAL @ BOS" away.
MatchupText(g) ==
    <<"L","A","L"," ">>
    \o (IF g % 2 = 1 THEN <<"v","s","."," ">> ELSE <<"@"," ">>)
    \o Opponents[(g % 3) + 1]

\* The player did not leave the bench in these games: MIN = 0, no stats.
Benched(g) == g % 4 = 2

\* One row of PlayerGameLog(...).get_data_frames()[0] (the columns the code
\* names, in the API's order).
ApiColumns == << "Game_ID", "GAME_DATE", "MATCHUP", "MIN", "FGA", "FG_PCT",
                 "FG3M", "FTA", "REB", "AST", "STL", "BLK", "TOV", "PTS",
                 "VIDEO_AVAILABLE" >>

ApiRow(g) ==
    LET stat(v) == Int2Cell(IF Benched(g) THEN 0 ELSE v)
    IN  [c \in Range(ApiColumns) |->
            CASE c = "Game_ID" -> StrCell(<<"0","0","2">> \o TwoDigits(g))
              [] c = "GAME_DATE" -> StrCell(GameDateText(g))
              [] c = "MATCHUP" -> StrCell(MatchupText(g))
              [] c = "MIN" -> stat(24 + 4 * (g % 5))
              [] c = "FGA" -> stat(8 + (g % 6))
              [] c = "FG_PCT" -> IF Benched(g) THEN Int2Cell(0)
                                 ELSE NumCell(35 + 5 * (g % 4), 100)
              [] c = "FG3M" -> stat(g % 4)
              [] c = "FTA" -> stat(g % 5)
              [] c = "REB" -> stat(3 + ((5 * g) % 7))
              [] c = "AST" -> stat(2 + ((3 * g) % 5))
              [] c = "STL" -> stat(g % 3)
              [] c = "BLK" -> stat(g % 2)
              [] c = "TOV" -> stat(1 + (g % 4))
              [] c = "PTS" -> stat(10 + ((7 * g) % 11))
              [] OTHER -> Int2Cell(1)]

\* The frame the API answers with for a log given as game numbers.
ApiFrame(games) ==
    Frame(ApiColumns, [i \in DOMAIN games |-> ApiRow(games[i])])

\* ---------------------------------------------------------- get_player_id
\* str.lower() on the model's texts.
LowerText(s0) ==
    Let1(LAMBDA s :
            [i \in DOMAIN s |->
                IF Ord(s[i]) \in Ord("A")..Ord("Z")
                THEN Ascii[Ord(s[i]) + (Ord("a") - Ord("A"))]
                ELSE s[i]],
         s0)

NoId == 0
PlayerCutoff == 6

\* Lines 22-32 of get_player_id once the exact match was looked for: exact
\* is the set of positions it may be at. The result is [raised, id, fuzzy],
\* fuzzy telling whether get_close_matches was called.
LookupFrom(exact0, player_name0, all_players0) ==
    Let3(LAMBDA exact, name, ps :
            IF exact # {}
            THEN [raised |-> FALSE, fuzzy |-> FALSE,
                  id |-> ps[CHOOSE i \in exact : \A j \in exact : i <= j].id]
            ELSE Let1(LAMBDA close :
                         IF close # <<>>
                         THEN [raised |-> FALSE, fuzzy |-> TRUE,
                               id |-> ps[CHOOSE i \in DOMAIN ps :
                                           /\ ps[i].full_name = close[1]
                                           /\ \A j \in 1..(i - 1) :
                                                ps[j].full_name # close[1]].id]
                         ELSE [raised |-> TRUE, fuzzy |-> TRUE, id |-> NoId],
                      GetCloseMatches(name,
                          [i \in DOMAIN ps |-> ps[i].full_name],
                          PlayerCutoff)),
         exact0, player_name0, all_players0)

\* get_player_id comparing the names as they are written.
IdExactCase(player_name0, all_players0) ==
    Let2(LAMBDA name, ps :
            LookupFrom({i \in DOMAIN ps : ps[i].full_name = name}, name, ps),
         player_name0, all_players0)

\* get_player_id(player_name) on the static list all_players.
get_player_id(player_name0, all_players0) ==
    Let2(LAMBDA name, ps :
            LookupFrom({i \in DOMAIN ps :
                           LowerText(ps[i].full_name) = LowerText(name)},
                       name, ps),
         player_name0, all_players0)

\* pd.to_datetime on one GAME_DATE text: the day count of the date.
ToDatetime(cell) ==
    Let1(LAMBDA s :
            LET mon == CHOOSE m \in DOMAIN Months : Months[m] = SubSeq(s, 1, 3)
                day == 10 * DigitVal(s[5]) + DigitVal(s[6])
                year == 1000 * DigitVal(s[9]) + 100 * DigitVal(s[10])
                        + 10 * DigitVal(s[11]) + DigitVal(s[12])
            IN  DateCell((year * 12 + mon) * 31 + day),
         cell.s)

\* get_player_gamelog(player_id, season, last_n): src is what the API call
\* did, [ok, games]; any exception gives the empty frame.
get_player_gamelog(src, last_n) ==
    IF ~src.ok THEN EmptyFrame
    ELSE LET Dated(df) ==
                 SetColumn(df, "GAME_DATE",
                     [i \in DOMAIN df.rows |->
                         ToDatetime(df.rows[i]["GAME_DATE"])])
         IN  SortValues(Let1(Dated, HeadRows(ApiFrame(src.games), last_n)),
                        "GAME_DATE")

\* The default of last_n.
DefaultLastN == 20

\* --------------------------------------------- the stats API's team game logs
\* teams.get_teams(): full names of the static team list.
AllTeams == << <<"B","o","s","t","o","n"," ","C","e","l","t","i","c","s">>,
               <<"U","t","a","h"," ","J","a","z","z">> >>

TeamLogColumns == << "PTS", "REB", "AST", "TOV", "FGA", "FTA", "OREB" >>

\* TeamGameLog(team).get_data_frames()[0] of team number t, when it has games.
TeamLogFrame(t) ==
    Frame(TeamLogColumns,
          [i \in 1..2 |->
              [c \in Range(TeamLogColumns) |->
                  CASE c = "PTS" -> Int2Cell(104 + 5 * t + 3 * i)
                    [] c = "REB" -> Int2Cell(40 + t + i)
                    [] c = "AST" -> Int2Cell(22 + 2 * t + i)
                    [] c = "TOV" -> Int2Cell(11 + t + i)
                    [] c = "FGA" -> Int2Cell(84 + t + 2 * i)
                    [] c = "FTA" -> Int2Cell(20 + 5 * t)
                    [] OTHER -> Int2Cell(8 + i)]])

\* What the fetch of one team's log did.
TeamOutcomes == {"error", "empty", "ok"}

\* The dict appended for one team whose log df is not empty.
TeamStatsRow(name, df0) ==
    LET Poss(df) ==
            [i \in DOMAIN df.rows |->
                Add(Sub(Add(df.rows[i]["FGA"],
                            Mul(NumCell(44, 100), df.rows[i]["FTA"])),
                        df.rows[i]["OREB"]),
                    df.rows[i]["TOV"])]
        DefRtg(pts, pace) ==
            IF Less(Int2Cell(0), pace)
            THEN Div(pts, Div(pace, Int2Cell(100))) ELSE NaN
        \* round(def_rtg, 1) if def_rtg else None
        Rounded(def_rtg) ==
            IF IsNull(def_rtg) \/ def_rtg.n = 0 THEN NaN ELSE Round1(def_rtg)
        Do(df, pts, pace) ==
            [c \in {"Team", "Opp_PPG", "Opp_RPG", "Opp_APG", "Pace", "DefRtg"} |->
                CASE c = "Team" -> StrCell(name)
                  [] c = "Opp_PPG" -> Round1(pts)
                  [] c = "Opp_RPG" -> Round1(Mean(Column(df, "REB")))
                  [] c = "Opp_APG" -> Round1(Mean(Column(df, "AST")))
                  [] c = "Pace" -> Round1(pace)
                  [] OTHER -> Let1(Rounded, DefRtg(pts, pace))]
    IN  Let1(LAMBDA df : Let3(Do, df, Mean(Column(df, "PTS")),
                              Mean(Let1(Poss, df))),
             df0)

\* The list team_stats after the loop over all teams.
TeamStats(outcome) ==
    LET done == SelectSeq([t \in DOMAIN AllTeams |-> t],
                          LAMBDA t : outcome[t] = "ok")
    IN  [i \in DOMAIN done |-> TeamStatsRow(AllTeams[done[i]],
                                            TeamLogFrame(done[i]))]

TeamDefColumns == << "Team", "Opp_PPG", "Opp_RPG", "Opp_APG", "Pace", "DefRtg" >>

\* get_team_defensive_metrics(season): outcome says what each team's fetch did.
get_team_defensive_metrics(outcome) ==
    Let1(LAMBDA team_stats :
            IF team_stats = <<>> THEN EmptyFrame
            ELSE Frame(TeamDefColumns, team_stats),
         TeamStats(outcome))

\* ------------------------------------------------------ get_player_context
\* last_n of get_season_averages, the rows of recent_games, and the cutoff
\* of the opponent match in tenths.
SeasonLastN == 82
RecentGames == 10
ContextCutoff == 5

\* get_season_averages(player_id, season): the row "mean" of describe() over
\* the number columns, to one decimal.
get_season_averages(src0) ==
    Let1(LAMBDA df :
            IF IsEmpty(df) THEN EmptyFrame
            ELSE Let1(LAMBDA num :
                         Frame(num.columns,
                               <<[c \in Range(num.columns) |->
                                    Round1(Mean([i \in DOMAIN num.rows |->
                                                    num.rows[i][c]]))]>>),
                      SelectNumeric(df)),
         get_player_gamelog(src0, SeasonLastN))

\* DataFrame.to_dict() of a frame of one row, and to_dict(orient="records")[0]:
\* the mapping from the columns to the cells of the first row; {} is <<>>.
FirstRecord(df0) ==
    Let1(LAMBDA df : IF df.rows = <<>> THEN <<>> ELSE df.rows[1], df0)

\* Lines 131-146: the rows of the team matched to the opponent.
OpponentFrame(opponent0, team_metrics0) ==
    Let2(LAMBDA opponent, team_metrics_df :
            IF IsEmpty(team_metrics_df) THEN EmptyFrame
            ELSE IF ~HasColumn(team_metrics_df, "Team") THEN EmptyFrame
            ELSE Let1(LAMBDA opp_match :
                         IF opp_match = <<>> THEN EmptyFrame
                         ELSE [columns |-> team_metrics_df.columns,
                               rows |-> SelectSeq(team_metrics_df.rows,
                                   LAMBDA r : r["Team"].s = opp_match[1])],
                      GetCloseMatches(opponent,
                          [i \in DOMAIN team_metrics_df.rows |->
                              team_metrics_df.rows[i]["Team"].s],
                          ContextCutoff)),
         opponent0, team_metrics0)

\* Lines 163-171: the context of the except branch.
EmptyContext(name) ==
    [player |-> name, season_avg |-> <<>>, recent_games |-> EmptyFrame,
     opponent_metrics |-> <<>>]

\* Lines 126-161, the body of the try: [raised, context]; get_player_id is
\* the call of it that raises.
ContextBody(name0, opponent0, players0, src0, outcome0) ==
    Let5(LAMBDA name, opponent, id, gamelog_df, team_metrics_df :
            IF id.raised THEN [raised |-> TRUE, context |-> <<>>]
            ELSE [raised |-> FALSE,
                  context |->
                     [player |-> name,
                      season_avg |->
                          IF ~IsEmpty(gamelog_df)
                          THEN FirstRecord(get_season_averages(src0))
                          ELSE <<>>,
                      recent_games |->
                          IF ~IsEmpty(gamelog_df)
                          THEN TailRows(gamelog_df, RecentGames)
                          ELSE EmptyFrame,
                      opponent_metrics |->
                          Let1(LAMBDA opponent_df :
                                  IF ~IsEmpty(opponent_df)
                                  THEN FirstRecord(opponent_df) ELSE <<>>,
                               OpponentFrame(opponent, team_metrics_df))]],
         name0, opponent0, get_player_id(name0, players0),
         get_player_gamelog(src0, DefaultLastN),
         get_team_defensive_metrics(outcome0))

\* get_player_context without its try and except.
ContextUncaught(name0, opponent0, players0, src0, outcome0) ==
    ContextBody(name0, opponent0, players0, src0, outcome0)

\* get_player_context(player_name, opponent_team, season): [raised, context].
get_player_context(name0, opponent0, players0, src0, outcome0) ==
    Let1(LAMBDA r :
            IF r.raised
            THEN [raised |-> FALSE, context |-> EmptyContext(name0)]
            ELSE r,
         ContextBody(name0, opponent0, players0, src0, outcome0))

\* ------------------------------------------------ utils/feature_engineer.py
\* min_periods of the rolling window.
MinPeriods == 1

RECURSIVE RollingMeanFrom(_, _, _, _, _, _)
\* Series.rolling(window, min_periods).mean() from row i on, as pandas
\* computes it: a running sum and count, row i added, row i - window removed,
\* NaN cells neither added nor removed.
RollingMeanFrom(vals0, window, min_periods, i0, sum0, nobs0) ==
    Let4(LAMBDA vals, i, sum, nobs :
            IF i > Len(vals) THEN <<>>
            ELSE LET add == ~IsNull(vals[i])
                     rem == i > window /\ ~IsNull(vals[i - window])
                     Step(s1, n1) ==
                         Let2(LAMBDA s2, n2 :
                                 <<IF n2 >= min_periods /\ n2 > 0
                                   THEN Div(s2, Int2Cell(n2)) ELSE NaN>>
                                 \o RollingMeanFrom(vals, window, min_periods,
                                                    i + 1, s2, n2),
                                  IF rem THEN Sub(s1, vals[i - window]) ELSE s1,
                                  IF rem THEN n1 - 1 ELSE n1)
                 IN  Let2(Step,
                          IF add THEN Add(sum, vals[i]) ELSE sum,
                          IF add THEN nobs + 1 ELSE nobs),
         vals0, i0, sum0, nobs0)

\* Series.rolling(window).mean(): min_periods is the window.
RollingMeanFull(vals, window) ==
    RollingMeanFrom(vals, window, window, 1, Int2Cell(0), 0)

\* Series.rolling(window, min_periods=1).mean()
RollingMean(vals, window) ==
    RollingMeanFrom(vals, window, MinPeriods, 1, Int2Cell(0), 0)

RollName(col, window) == col \o "_roll" \o ToString(window)

NumericCols == << "PTS", "REB", "AST", "STL", "BLK", "TOV", "FG_PCT", "FG3M" >>

RECURSIVE AddRollingCols(_, _, _)
\* The loop over numeric_cols.
AddRollingCols(df0, cols0, window) ==
    Let2(LAMBDA df, cols :
            IF cols = <<>> THEN df
            ELSE AddRollingCols(
                    IF HasColumn(df, Head(cols))
                    THEN SetColumn(df, RollName(Head(cols), window),
                                   RollingMean(Column(df, Head(cols)), window))
                    ELSE df,
                    Tail(cols), window),
         df0, cols0)

add_rolling_features(df0, window) ==
    Let1(LAMBDA df : IF IsEmpty(df) THEN df
                     ELSE AddRollingCols(df, NumericCols, window),
         df0)

\* The default of window.
DefaultWindow == 5

\* USG with the games without minutes filled with 0, not the mean.
UsageZeroFill(df0) ==
    SetColumn(df0, "USG",
        [i \in DOMAIN df0.rows |->
            IF df0.rows[i]["MIN"].n = 0 THEN Int2Cell(0)
            ELSE Mul(Div(Add(Add(df0.rows[i]["FGA"],
                                 Mul(NumCell(44, 100), df0.rows[i]["FTA"])),
                             df0.rows[i]["TOV"]),
                         df0.rows[i]["MIN"]),
                     Int2Cell(100))])

add_usage_rate(df0) ==
    LET Raw(df) ==
            [i \in DOMAIN df.rows |->
                Mul(Div(Add(Add(df.rows[i]["FGA"],
                                Mul(NumCell(44, 100), df.rows[i]["FTA"])),
                            df.rows[i]["TOV"]),
                        \* MIN.replace(0, nan)
                        IF df.rows[i]["MIN"].n = 0 THEN NaN
                        ELSE df.rows[i]["MIN"]),
                    Int2Cell(100))]
        \* df["USG"].fillna(df["USG"].mean())
        Filled(usg, mean) ==
            [i \in DOMAIN usg |-> IF IsNull(usg[i]) THEN mean ELSE usg[i]]
        Do(df) ==
            IF {"FGA", "FTA", "TOV", "MIN"} \subseteq Range(df.columns)
            THEN SetColumn(df, "USG",
                     Let1(LAMBDA usg : Let2(Filled, usg, Mean(usg)),
                          SubSeq(Raw(df), 1, Len(df.rows))))
            ELSE SetColumn(df, "USG", [i \in DOMAIN df.rows |-> NaN])
    IN  Let1(Do, df0)

\* PRA without the assists.
AddPtsReb(df0) ==
    SetColumn(df0, "PRA",
        [i \in DOMAIN df0.rows |-> Add(df0.rows[i]["PTS"], df0.rows[i]["REB"])])

AddPRA(df0) ==
    Let1(LAMBDA df :
            IF {"PTS", "REB", "AST"} \subseteq Range(df.columns)
            THEN SetColumn(df, "PRA",
                    [i \in DOMAIN df.rows |->
                        Add(Add(df.rows[i]["PTS"], df.rows[i]["REB"]),
                            df.rows[i]["AST"])])
            ELSE df,
         df0)

AddEFF(df0) ==
    Let1(LAMBDA df :
            IF {"PTS", "REB", "AST", "STL", "BLK", "TOV"} \subseteq Range(df.columns)
            THEN SetColumn(df, "EFF",
                    [i \in DOMAIN df.rows |->
                        Sub(Add(Add(Add(Add(df.rows[i]["PTS"], df.rows[i]["REB"]),
                                        df.rows[i]["AST"]),
                                    df.rows[i]["STL"]),
                                df.rows[i]["BLK"]),
                            df.rows[i]["TOV"])])
            ELSE df,
         df0)

add_composite_metrics(df) == AddEFF(AddPRA(df))

\* (\w+) at position i of s: the longest run of word characters from i.
WordRun(s, i) ==
    LET n == CHOOSE k \in 0..(Len(s) - i + 1) :
                 /\ \A m \in 0..(k - 1) : s[i + m] \in WordChars
                 /\ k = Len(s) - i + 1 \/ s[i + k] \notin WordChars
    IN  SubSeq(s, i, i + n - 1)

StartsAt(s, i, lit) ==
    i + Len(lit) - 1 <= Len(s) /\ SubSeq(s, i, i + Len(lit) - 1) = lit

\* Whether "vs\. (\w+)" or "@ (\w+)" matches at position i of s.
MatchesVs(s, i) == StartsAt(s, i, <<"v", "s", ".", " ">>) /\ WordRun(s, i + 4) # <<>>
MatchesAt(s, i) == StartsAt(s, i, <<"@", " ">>) /\ WordRun(s, i + 2) # <<>>

\* re.search(r"vs\. (\w+)|@ (\w+)", s): the pair of groups of the leftmost
\* match (the first alternative tried first), an unmatched group None.
ExtractGroups(s0) ==
    LET At(s, i) == IF MatchesVs(s, i) THEN <<StrCell(WordRun(s, i + 4)), None>>
                    ELSE <<None, StrCell(WordRun(s, i + 2))>>
        Do(s) ==
            LET hits == {i \in DOMAIN s : MatchesVs(s, i) \/ MatchesAt(s, i)}
            IN  IF hits = {} THEN <<None, None>>
                ELSE At(s, CHOOSE i \in hits : \A j \in hits : i <= j)
    IN  Let1(Do, s0)

\* MATCHUP.str.extract(...).bfill(axis=1).iloc[:, 0] on one cell.
ExtractOpponent(cell) ==
    Let1(LAMBDA groups : IF ~IsNull(groups[1]) THEN groups[1] ELSE groups[2],
         ExtractGroups(cell.s))

\* The fuzzy cutoff of the opponent match, in tenths.
TeamCutoff == 4

\* match_team(opp) of merge_opponent_defense.
match_team(opp0, team_def0) ==
    Let2(LAMBDA opp, team_def :
            IF IsNull(opp) THEN None
            ELSE Let1(LAMBDA match :
                         IF match # <<>> THEN StrCell(match[1]) ELSE None,
                      GetCloseMatches(opp.s,
                          [i \in DOMAIN team_def.rows |->
                              team_def.rows[i]["Team"].s],
                          TeamCutoff)),
         opp0, team_def0)

KeysMatch(l0, r0) ==
    Let2(LAMBDA l, r : (IsNull(l) /\ IsNull(r))
                       \/ (~IsNull(l) /\ ~IsNull(r) /\ l = r),
         l0, r0)

\* An inner merge: a left row without a matching right row is lost.
InnerMergeRow(lrow, lcols, right, left_on, right_on) ==
    LET cols == Range(lcols) \cup Range(right.columns)
        hits == SelectSeq(right.rows,
                    LAMBDA r : KeysMatch(lrow[left_on], r[right_on]))
    IN  [i \in DOMAIN hits |->
            [c \in cols |-> IF c \in Range(lcols) THEN lrow[c] ELSE hits[i][c]]]

\* The rows a left merge makes of one left row: one per matching right row,
\* or one with the right columns null.
LeftMergeRow(lrow, lcols, right, left_on, right_on) ==
    LET cols == Range(lcols) \cup Range(right.columns)
        Join(r) == [c \in cols |-> IF c \in Range(lcols) THEN lrow[c] ELSE r[c]]
        nulls == [c \in Range(right.columns) |->
                     IF IsNumericColumn(right, c) THEN NaN ELSE None]
        Do(hits) == IF hits = <<>> THEN <<Join(nulls)>>
                    ELSE [i \in DOMAIN hits |-> Join(hits[i])]
    IN  Let1(Do, SelectSeq(right.rows,
                     LAMBDA r : KeysMatch(lrow[left_on], r[right_on])))

RECURSIVE LeftMergeRows(_, _, _, _, _)
LeftMergeRows(lrows0, lcols, right, left_on, right_on) ==
    Let1(LAMBDA lrows :
            IF lrows = <<>> THEN <<>>
            ELSE LeftMergeRow(Head(lrows), lcols, right, left_on, right_on)
                 \o LeftMergeRows(Tail(lrows), lcols, right, left_on, right_on),
         lrows0)

\* df.merge(right, how="left", left_on=..., right_on=...); the two frames
\* share no column name.
MergeLeft(df0, right0, left_on, right_on) ==
    Let2(LAMBDA df, right :
            [columns |-> df.columns \o right.columns,
             rows |-> LeftMergeRows(df.rows, df.columns, right, left_on, right_on)],
         df0, right0)

NullOpponent(df) ==
    SetColumn(SetColumn(df, "Opp_Def_Rtg", [i \in DOMAIN df.rows |-> NaN]),
              "Opp_Pace", [i \in DOMAIN df.rows |-> NaN])

\* Lines 79-90: the opponent key of every row and the team it resolves to.
AddTeamMatch(df0, team_def) ==
    LET Keyed(df) ==
            SetColumn(df, "TeamMatch",
                [i \in DOMAIN df.rows |->
                    match_team(df.rows[i]["Opp_Team"], team_def)])
        Do(df) ==
            Let1(Keyed,
                 SetColumn(df, "Opp_Team",
                     [i \in DOMAIN df.rows |->
                         ExtractOpponent(df.rows[i]["MATCHUP"])]))
    IN  Let1(Do, df0)

\* Lines 95-101: placeholders for missing metrics, then the renaming.
RenameMetrics(m0) ==
    LET WithCol(m, c) ==
            IF HasColumn(m, c) THEN m
            ELSE SetColumn(m, c, [i \in DOMAIN m.rows |-> NaN])
        Do(m) == RenameColumns(Let2(WithCol, Let2(WithCol, m, "DefRtg"), "Pace"),
                               [c \in {"DefRtg", "Pace"} |->
                                   IF c = "DefRtg" THEN "Opp_Def_Rtg"
                                   ELSE "Opp_Pace"])
    IN  Let1(Do, m0)

merge_opponent_defense(df0, team_def0) ==
    Let2(LAMBDA df, team_def :
            IF IsEmpty(team_def) THEN NullOpponent(df)
            ELSE IF ~HasColumn(team_def, "Team") THEN NullOpponent(df)
            \* df["MATCHUP"] of a frame without it raises: the except branch
            ELSE IF ~HasColumn(df, "MATCHUP") THEN NullOpponent(df)
            ELSE RenameMetrics(
                     DropColumns(
                         MergeLeft(AddTeamMatch(df, team_def), team_def,
                                   "TeamMatch", "Team"),
                         {"Team"})),
         df0, team_def0)

DropCols == {"MATCHUP", "VIDEO_AVAILABLE", "Opp_Team", "TeamMatch",
             "TEAM_ABBREVIATION", "GAME_ID"}

\* The frame of build_feature_dataset before its step 3 (the column drop).
FeaturesMerged(gamelog, team_def) ==
    merge_opponent_defense(
        add_composite_metrics(
            add_usage_rate(add_rolling_features(gamelog, DefaultWindow))),
        team_def)

\* Steps 3 and 4 of build_feature_dataset.
FeaturesFinal(merged) ==
    FillNa0(SelectNumeric(DropColumns(merged, DropCols)))

\* The frame after each step of build_feature_dataset on a log that is not
\* empty: the log, after add_rolling_features, add_usage_rate,
\* add_composite_metrics, merge_opponent_defense, the column drop,
\* select_dtypes and fillna(0).
StagesFillFirst(gamelog, team_def) ==
    Let1(LAMBDA s1 :
      Let1(LAMBDA s2 :
        Let1(LAMBDA s3 :
          Let1(LAMBDA s4 :
            Let1(LAMBDA s5 :
              Let1(LAMBDA s6 :
                Let1(LAMBDA s7 : <<s1, s2, s3, s4, s5, s6, s7, s7>>,
                     SelectNumeric(s6)),
                   DropColumns(s5, DropCols)),
                 merge_opponent_defense(s4, team_def)),
               add_composite_metrics(s3)),
             add_usage_rate(s2)),
           add_rolling_features(s1, DefaultWindow)),
         FillNa0(gamelog))

BuildStages(gamelog, team_def) ==
    Let1(LAMBDA s1 :
      Let1(LAMBDA s2 :
        Let1(LAMBDA s3 :
          Let1(LAMBDA s4 :
            Let1(LAMBDA s5 :
              Let1(LAMBDA s6 :
                Let1(LAMBDA s7 : <<s1, s2, s3, s4, s5, s6, s7, FillNa0(s7)>>,
                     SelectNumeric(s6)),
                   DropColumns(s5, DropCols)),
                 merge_opponent_defense(s4, team_def)),
               add_composite_metrics(s3)),
             add_usage_rate(s2)),
           add_rolling_features(s1, DefaultWindow)),
         gamelog)

\* Lines 121-143 without the return on an empty log.
BuildAlways(df0, team_def) ==
    FeaturesFinal(FeaturesMerged(df0, team_def))

\* Lines 121-143: build_feature_dataset once it holds the log.
BuildFromLog(df0, team_def) ==
    Let1(LAMBDA df :
            IF IsEmpty(df) THEN EmptyFrame
            ELSE FeaturesFinal(FeaturesMerged(df, team_def)),
         df0)

\* build_feature_dataset(player_id, season) on what the two fetches did.
build_feature_dataset(s, o) ==
    BuildFromLog(get_player_gamelog(s, DefaultLastN),
                 get_team_defensive_metrics(o))

\* The frame object get_player_gamelog handed to build_feature_dataset, as
\* the build leaves it: the steps up to the merge assign their columns into
\* it; merge_opponent_defense returns it (lines 60-62, 75-77, 107-109) or a
\* new frame (line 92), and the drop of line 138 works in place on what was
\* returned.
InPlaceLeft(gamelog0, team_def0) ==
    Let2(LAMBDA gamelog, team_def :
            IF IsEmpty(gamelog) THEN gamelog
            ELSE Let1(LAMBDA st :
                         IF \/ IsEmpty(team_def)
                            \/ ~HasColumn(team_def, "Team")
                            \/ ~HasColumn(st[4], "MATCHUP")
                         THEN st[6]
                         ELSE AddTeamMatch(st[4], team_def),
                      BuildStages(gamelog, team_def)),
         gamelog0, team_def0)

\* ----------------------------------------------------- utils/model_utils.py
\* A fitted XGBRegressor is known by the column names it was fitted on
\* (get_booster().feature_names) and, when the trainer fitted it, the rows
\* it was fitted on; a dict is the sequence of its items.
Targets == << "PTS", "REB", "AST" >>

\* len(X) below which no target is trained.
MinTrainRows == 10

DictKeys(items0) == Let1(LAMBDA items : {items[i].stat : i \in DOMAIN items}, items0)
DictGet(items, key) == CHOOSE i \in DOMAIN items : items[i].stat = key

\* rng.permutation(n) of train_test_split's shuffle with random_state=42
\* (numpy's RandomState(42)), as row numbers from 1; no table of fewer than
\* MinTrainRows or more than DefaultLastN rows is split.
Permutation42(n) ==
    CASE n = 10 -> << 9, 2, 6, 1, 8, 3, 10, 5, 4, 7 >>
      [] n = 11 -> << 6, 1, 10, 11, 3, 2, 9, 5, 8, 4, 7 >>
      [] n = 12 -> << 11, 10, 1, 9, 6, 3, 2, 12, 5, 8, 4, 7 >>
      [] n = 13 -> << 12, 10, 1, 9, 6, 3, 2, 13, 5, 8, 11, 4, 7 >>
      [] n = 14 -> << 10, 12, 1, 13, 6, 9, 3, 2, 14, 5, 8, 11, 4, 7 >>
      [] n = 15 -> << 10, 12, 1, 14, 6, 9, 3, 2, 15, 5, 8, 11, 13, 4, 7 >>
      [] n = 16 -> << 1, 2, 6, 15, 14, 12, 9, 10, 3, 16, 5, 8, 11, 13, 4, 7 >>
      [] n = 17 -> << 1, 2, 6, 16, 12, 15, 9, 14, 3, 10, 17, 5, 8, 11, 13, 4, 7 >>
      [] n = 18 -> << 1, 2, 9, 6, 4, 14, 17, 16, 12, 3, 10, 18, 5, 13, 8, 11, 15, 7 >>
      [] n = 19 -> << 1, 6, 12, 2, 9, 17, 4, 14, 16, 18, 3, 10, 19, 5, 13, 8, 11, 15, 7 >>
      [] n = 20 -> << 1, 18, 16, 2, 9, 6, 12, 4, 19, 17, 14, 3, 10, 20, 5, 13, 8, 11, 15, 7 >>
      [] OTHER -> [i \in 1..n |-> i]

\* The number of held-out rows: ceil(test_size * n) with test_size = 0.25.
TestCount(n) == (n + 3) \div 4

\* train_test_split(X, y, test_size=0.25, random_state=42): the rows of the
\* two parts.
TrainTestSplit(n) ==
    [test |-> SubSeq(Permutation42(n), 1, TestCount(n)),
     train |-> SubSeq(Permutation42(n), TestCount(n) + 1, n)]

\* The loop over targets of load_or_train_cached_model.
FitTargets(targets0, X0) ==
    Let2(LAMBDA targets, X :
            IF Len(X.rows) < MinTrainRows THEN <<>>
            ELSE [i \in DOMAIN targets |->
                     [stat |-> targets[i], feature_names |-> X.columns,
                      train_rows |-> TrainTestSplit(Len(X.rows)).train]],
         targets0, X0)

load_or_train_cached_model(df0) ==
    LET Fit(X0, targets) == FitTargets(targets, DropColumns(X0, Range(targets)))
        Do(df) ==
            IF IsEmpty(df) THEN <<>>
            ELSE Let1(LAMBDA X0 :
                         Let2(Fit, X0,
                              SelectSeq(Targets, LAMBDA c : HasColumn(X0, c))),
                      SelectNumeric(df))
    IN  Let1(Do, df0)

\* model.predict(frame) checks the frame's column names against the names
\* the model was fitted on and raises when they differ.
PredictRaises(model, frame) == frame.columns # model.feature_names

\* The X train_xgboost_models evaluates the model of target on.
EvalColumns(numeric, target) == DropColumns(numeric, {target}).columns

\* train_xgboost_models(df): [raised, results]; the metrics of a target are
\* kept as the columns and the rows it was evaluated on.
train_xgboost_models(df0) ==
    LET Do(ms, numeric) ==
            IF ms = <<>> THEN [raised |-> FALSE, results |-> <<>>]
            ELSE IF \E i \in DOMAIN ms :
                       EvalColumns(numeric, ms[i].stat) # ms[i].feature_names
            THEN [raised |-> TRUE, results |-> <<>>]
            ELSE [raised |-> FALSE,
                  results |-> [i \in DOMAIN ms |->
                      [stat |-> ms[i].stat,
                       feature_names |-> EvalColumns(numeric, ms[i].stat),
                       eval_rows |-> [k \in DOMAIN numeric.rows |-> k]]]]
    IN  Let1(LAMBDA df : Let2(Do, load_or_train_cached_model(df),
                              SelectNumeric(df)),
             df0)

\* What predict_next_game is given as models: nothing (None), a dict of
\* fitted models, or the dict of metrics train_xgboost_models returns.
NoModels == [kind |-> "none", items |-> <<>>]
ModelDict(items) == [kind |-> "models", items |-> items]
MetricsDict(items) == [kind |-> "metrics", items |-> items]

\* bool(models)
Truthy(arg) == arg.kind # "none" /\ arg.items # <<>>

\* No alignment: the last row as it is.
AlignNot(latest0, expected0) == latest0

\* Lines 90-101: the last row aligned to the columns expected.
AlignTo(latest0, expected0) ==
    Let2(LAMBDA latest, expected :
            IF expected = <<>> THEN latest
            ELSE [columns |-> expected,
                  rows |-> [i \in DOMAIN latest.rows |->
                      [c \in Range(expected) |->
                          IF HasColumn(latest, c) THEN latest.rows[i][c]
                          ELSE Int2Cell(0)]]],
         latest0, expected0)

\* Lines 88-89: the column names the last row is aligned to, <<>> for none:
\* those of the PTS model.
ExpectedFeatures(arg) ==
    IF Truthy(arg) /\ "PTS" \in DictKeys(arg.items)
    THEN arg.items[DictGet(arg.items, "PTS")].feature_names
    ELSE <<>>

RECURSIVE PredictLoop(_, _, _, _, _)
\* Lines 103-106: the loop over models.items(); out[stat] is what the model
\* of stat answers.  Gives [error, preds, fed]: fed lists the frame handed
\* to each model.
PredictLoop(items0, latest0, out, preds0, fed0) ==
    Let4(LAMBDA items, latest, preds, fed :
            IF items = <<>> THEN [error |-> FALSE, preds |-> preds, fed |-> fed]
            ELSE IF PredictRaises(Head(items), latest)
            THEN [error |-> TRUE, preds |-> <<>>,
                  fed |-> Append(fed, [stat |-> Head(items).stat,
                                       frame |-> latest])]
            ELSE PredictLoop(Tail(items), latest, out,
                     Append(preds, [stat |-> Head(items).stat,
                                    value |-> Round1(out[Head(items).stat])]),
                     Append(fed, [stat |-> Head(items).stat, frame |-> latest])),
         items0, latest0, preds0, fed0)

\* predict_next_game(df, models): never raises; error says that st.error was
\* called (an exception was caught, or there was no data) and {} returned.
predict_next_game(df0, arg0, out) ==
    LET failed == [error |-> TRUE, preds |-> <<>>, fed |-> <<>>]
        Do(df, arg, df_numeric) ==
            IF IsEmpty(df) \/ IsEmpty(df_numeric) THEN failed
            \* the values of a metrics dict have no get_booster
            ELSE IF arg.kind = "metrics" /\ "PTS" \in DictKeys(arg.items)
            THEN failed
            \* None has no items()
            ELSE IF arg.kind = "none" THEN failed
            \* the values of a metrics dict have no predict
            ELSE IF arg.kind = "metrics" /\ arg.items # <<>> THEN failed
            ELSE PredictLoop(arg.items,
                     AlignTo(TailRows(df_numeric, 1), ExpectedFeatures(arg)),
                     out, <<>>, <<>>)
    IN  Let1(LAMBDA a : Let3(Do, a[1], a[2], SelectNumeric(a[1])),
             <<df0, arg0>>)

\* ------------------------------------------------------------------- state
VARIABLES
    src,         \* what the player game-log fetch does: [ok, games]
    outcome,     \* what the game-log fetch of each team does
    page,        \* the page being run
    pc,          \* the position in the page's handler
    feature_df,  \* the frame build_feature_dataset returned
    models,      \* the dict load_or_train_cached_model returned (cached)
    results,     \* the dict train_xgboost_models returned
    model_arg,   \* what predict_next_game was given as models
    preds,       \* the dict predict_next_game returned
    fed,         \* the frames predict_next_game handed to the models
    st_error,    \* whether predict_next_game called st.error
    shown,       \* the metric cards on the page
    window,      \* the window add_rolling_features was called with
    log_cache,   \* the entry of get_player_gamelog's cache: <<>> or <<frame>>
    runs,        \* how many times the page has built its features
    player_name, \* the name get_player_id and get_player_context are given
    all_players, \* players.get_players(): the static list, [id, full_name]
    found,       \* what get_player_id did: [raised, id, fuzzy]
    opponent_team, \* the opponent get_player_context is given
    context,     \* what get_player_context returned
    last_n,      \* the row limit get_player_gamelog is given
    gamelog      \* the frame get_player_gamelog returned

\* The variables of the calls into data_loader that no page of Spec makes.
lookup_vars == <<player_name, all_players, found, opponent_team, context,
                 last_n, gamelog>>

NotCalled == [raised |-> FALSE, fuzzy |-> FALSE, id |-> NoId]

\* No call into data_loader besides those of the pages was made.
NoLookup ==
    /\ player_name = <<>>
    /\ all_players = <<>>
    /\ found = NotCalled
    /\ opponent_team = <<>>
    /\ context = <<>>
    /\ last_n = DefaultLastN
    /\ gamelog = EmptyFrame

vars == <<src, outcome, page, pc, feature_df, models, results, model_arg,
          preds, fed, st_error, shown, window, log_cache, runs, lookup_vars>>

\* ------------------------------------------------------------------ inputs
Injective(s) == \A i, j \in DOMAIN s : i # j => s[i] # s[j]

\* The first PermGames games in every order and subset; longer logs as the
\* API sends them, the most recent game first.
Logs ==
    {s \in UNION {[1..n -> 1..PermGames] : n \in 0..PermGames} : Injective(s)}
    \cup {[i \in 1..n |-> n + 1 - i] : n \in (PermGames + 1)..MaxGames}

Sources == {[ok |-> FALSE, games |-> <<>>]}
           \cup {[ok |-> TRUE, games |-> g] : g \in Logs}

\* What a fitted model may answer.
PredValues == {Int2Cell(0), NumCell(1234, 100), NumCell(77, 10)}

\* --------------------------------------------------------------- the pages
\* What a cache of st.cache_data holds for a call: the value the function
\* returned, serialised at the return; what the caller does to the returned
\* frame afterwards (later) does not reach the entry, and every hit hands
\* out a fresh copy of it.
CacheShared(value, later) == later

CacheData(value, later) == value

Init ==
    /\ src \in Sources
    /\ outcome \in [DOMAIN AllTeams -> TeamOutcomes]
    /\ page = "none"
    /\ pc = "idle"
    /\ feature_df = EmptyFrame
    /\ models = <<>>
    /\ results = <<>>
    /\ model_arg = NoModels
    /\ preds = <<>>
    /\ fed = <<>>
    /\ st_error = FALSE
    /\ shown = <<>>
    /\ window = DefaultWindow
    /\ log_cache = <<>>
    /\ runs = 0
    /\ NoLookup

Pages == {"predictions", "tracker", "dashboard"}

\* The user opens a page and asks for a player.
OpenPage ==
    /\ pc = "idle"
    /\ \E p \in Pages : page' = p
    /\ pc' = "start"
    /\ UNCHANGED <<src, outcome, feature_df, models, results, model_arg,
                   preds, fed, st_error, shown, window, log_cache, runs, lookup_vars>>

\* pages/2_Model_Predictions.py line 31, pages/3_Live_Tracker.py line 44.
\* app.py line 79: the dashboard calls get_player_context(player_name)
\* without the opponent_team its signature requires (data_loader.py line
\* 124); the call raises TypeError and the script ends there, before its
\* build, training and prediction of lines 107-112.
DashboardContext ==
    /\ pc = "start"
    /\ page = "dashboard"
    /\ pc' = "error"
    /\ UNCHANGED <<src, outcome, page, feature_df, models, results, model_arg,
                   preds, fed, st_error, shown, window, log_cache, runs,
                   lookup_vars>>

\* The build starts from the entry of get_player_gamelog's cache when there
\* is one and from the fetch when there is none, and works on that frame in
\* place.
BuildFeatures ==
    /\ pc = "start"
    /\ page \in {"predictions", "tracker"}
    /\ \E df \in {IF log_cache = <<>>
                   THEN get_player_gamelog(src, DefaultLastN)
                   ELSE log_cache[1]} :
          /\ feature_df' = BuildFromLog(df, get_team_defensive_metrics(outcome))
          /\ log_cache' =
                 <<CacheData(df, InPlaceLeft(df,
                                     get_team_defensive_metrics(outcome)))>>
    /\ runs' = runs + 1
    /\ pc' = "built"
    /\ UNCHANGED <<src, outcome, page, models, results, model_arg, preds, fed,
                   st_error, shown, window, lookup_vars>>

\* pages/2_Model_Predictions.py line 33; an exception ends the handler in
\* its except branch.
TrainModels ==
    /\ pc = "built"
    /\ page = "predictions"
    /\ models' = load_or_train_cached_model(feature_df)
    /\ \E r \in {train_xgboost_models(feature_df)} :
          /\ results' = r.results
          /\ pc' = IF r.raised THEN "error" ELSE "trained"
    /\ UNCHANGED <<src, outcome, page, feature_df, model_arg, preds, fed,
                   st_error, shown, window, log_cache, runs, lookup_vars>>

\* The models argument of the pages' calls of predict_next_game: none.
PageModelArg == NoModels

\* pages/2_Model_Predictions.py line 34, pages/3_Live_Tracker.py line 45.
PredictNext ==
    /\ \/ page = "predictions" /\ pc = "trained"
       \/ page = "tracker" /\ pc = "built"
    /\ \E out \in [Range(Targets) -> PredValues] :
          \E r \in {predict_next_game(feature_df, PageModelArg, out)} :
             /\ preds' = r.preds
             /\ fed' = r.fed
             /\ st_error' = r.error
    /\ model_arg' = PageModelArg
    /\ pc' = "predicted"
    /\ UNCHANGED <<src, outcome, page, feature_df, models, results, shown,
                   window, log_cache, runs, lookup_vars>>

\* preds.get(stat, 0)
PredsGet(d, stat) ==
    IF stat \in DictKeys(d) THEN d[DictGet(d, stat)].value ELSE Int2Cell(0)

\* f"{x:.1f}": the value to one decimal.
Format1(x) == Round1(x)

\* pages/2_Model_Predictions.py lines 36-40: the three metric cards.
ShowPredictions ==
    /\ page = "predictions"
    /\ pc = "predicted"
    /\ shown' = [i \in DOMAIN Targets |->
                    [stat |-> Targets[i],
                     text |-> Format1(PredsGet(preds, Targets[i]))]]
    /\ pc' = "shown"
    /\ UNCHANGED <<src, outcome, page, feature_df, models, results, model_arg,
                   preds, fed, st_error, window, log_cache, runs, lookup_vars>>

\* pages/3_Live_Tracker.py lines 47-94: without live data a warning; with
\* live data the comparison table has one row per predicted stat, and
\* without any row it has no "Predicted" column to read.
ShowTracker ==
    /\ page = "tracker"
    /\ pc = "predicted"
    /\ \E live \in BOOLEAN :
          IF ~live THEN /\ pc' = "shown"
                        /\ shown' = <<>>
          ELSE IF preds = <<>> THEN /\ pc' = "error"
                                    /\ shown' = <<>>
          ELSE /\ pc' = "shown"
               /\ shown' = [i \in DOMAIN preds |->
                               [stat |-> preds[i].stat,
                                text |-> preds[i].value]]
    /\ UNCHANGED <<src, outcome, page, feature_df, models, results, model_arg,
                   preds, fed, st_error, window, log_cache, runs, lookup_vars>>

\* Streamlit runs the page script again on the next interaction: the
\* script's variables start over, the caches stay, and feature_df keeps the
\* table of the last build until the next one returns.
Rerun ==
    /\ pc \in {"shown", "error"}
    /\ runs < MaxRuns
    /\ pc' = "start"
    /\ models' = <<>>
    /\ results' = <<>>
    /\ model_arg' = NoModels
    /\ preds' = <<>>
    /\ fed' = <<>>
    /\ st_error' = FALSE
    /\ shown' = <<>>
    /\ UNCHANGED <<src, outcome, page, feature_df, window, log_cache, runs, lookup_vars>>

Next ==
    \/ OpenPage
    \/ DashboardContext
    \/ BuildFeatures
    \/ TrainModels
    \/ PredictNext
    \/ ShowPredictions
    \/ ShowTracker
    \/ Rerun

Spec == Init /\ [][Next]_vars

\* ------------------------------------ add_rolling_features on every window
Windows == (1..MaxWindow) \cup {DefaultWindow}

InitRolling ==
    /\ src \in Sources
    /\ window \in Windows
    /\ log_cache = <<>>
    /\ runs = 0
    /\ NoLookup
    /\ outcome = [t \in DOMAIN AllTeams |-> "empty"]
    /\ page = "none"
    /\ pc = "idle"
    /\ feature_df = EmptyFrame
    /\ models = <<>>
    /\ results = <<>>
    /\ model_arg = NoModels
    /\ preds = <<>>
    /\ fed = <<>>
    /\ st_error = FALSE
    /\ shown = <<>>

\* add_rolling_features(df, window) on the log get_player_gamelog returned.
RollFeatures ==
    /\ pc = "idle"
    /\ feature_df' = add_rolling_features(get_player_gamelog(src, DefaultLastN),
                                          window)
    /\ pc' = "rolled"
    /\ UNCHANGED <<src, outcome, page, models, results, model_arg, preds, fed,
                   st_error, shown, window, log_cache, runs, lookup_vars>>

NextRolling == RollFeatures

SpecRolling == InitRolling /\ [][NextRolling]_vars

\* ------------------------------------------------- a player looked up by name
\* The static list is any run of up to MaxPlayers of these players; two of
\* them share a full name.
PlayerPool ==
    << [id |-> 101, full_name |-> <<"J","a"," ","M","o","r","a","n","t">>],
       [id |-> 102, full_name |-> <<"M","i","k","e"," ","J","a","m","e","s">>],
       [id |-> 103, full_name |->
           <<"D","e","M","a","r"," ","D","e","R","o","z","a","n">>],
       [id |-> 104, full_name |-> <<"M","i","k","e"," ","J","a","m","e","s">>] >>

PlayerLists ==
    {[i \in DOMAIN s |-> PlayerPool[s[i]]] :
        s \in {q \in UNION {[1..n -> DOMAIN PlayerPool] : n \in 0..MaxPlayers} :
                  Injective(q)}}

\* Names as typed: in another case, misspelt, unknown, empty.
TypedNames ==
    { <<"j","a"," ","m","o","r","a","n","t">>,
      <<"J","a"," ","M","o","r","a","n","t">>,
      <<"J","A"," ","M","O","R","A","N","T">>,
      <<"J","a"," ","M","o","r","e","n","t">>,
      <<"M","i","k","e"," ","J","a","m","e">>,
      <<"m","i","k","e"," ","j","a","m","e","s">>,
      <<"D","e","m","a","r"," ","D","e","r","o","z","a","n">>,
      <<"Z","e","d">>,
      <<>> }

InitLookup ==
    /\ src = [ok |-> FALSE, games |-> <<>>]
    /\ outcome = [t \in DOMAIN AllTeams |-> "empty"]
    /\ page = "none"
    /\ pc = "idle"
    /\ feature_df = EmptyFrame
    /\ models = <<>>
    /\ results = <<>>
    /\ model_arg = NoModels
    /\ preds = <<>>
    /\ fed = <<>>
    /\ st_error = FALSE
    /\ shown = <<>>
    /\ window = DefaultWindow
    /\ log_cache = <<>>
    /\ runs = 0
    /\ player_name \in TypedNames
    /\ all_players \in PlayerLists
    /\ found = NotCalled
    /\ opponent_team = <<>>
    /\ context = <<>>
    /\ last_n = DefaultLastN
    /\ gamelog = EmptyFrame

\* get_player_id(player_name).
CallGetPlayerId ==
    /\ pc = "idle"
    /\ found' = get_player_id(player_name, all_players)
    /\ pc' = "done"
    /\ UNCHANGED <<src, outcome, page, feature_df, models, results, model_arg,
                   preds, fed, st_error, shown, window, log_cache, runs,
                   player_name, all_players, opponent_team, context, last_n,
                   gamelog>>

NextLookup == CallGetPlayerId

SpecLookup == InitLookup /\ [][NextLookup]_vars

\* ------------------------------------------- a game log fetched with a limit
LastNs == 1..MaxLastN

InitGamelog ==
    /\ src \in Sources
    /\ outcome = [t \in DOMAIN AllTeams |-> "empty"]
    /\ page = "none"
    /\ pc = "idle"
    /\ feature_df = EmptyFrame
    /\ models = <<>>
    /\ results = <<>>
    /\ model_arg = NoModels
    /\ preds = <<>>
    /\ fed = <<>>
    /\ st_error = FALSE
    /\ shown = <<>>
    /\ window = DefaultWindow
    /\ log_cache = <<>>
    /\ runs = 0
    /\ player_name = <<>>
    /\ all_players = <<>>
    /\ found = NotCalled
    /\ opponent_team = <<>>
    /\ context = <<>>
    /\ last_n \in LastNs
    /\ gamelog = EmptyFrame

\* get_player_gamelog(player_id, season, last_n).
CallGetPlayerGamelog ==
    /\ pc = "idle"
    /\ gamelog' = get_player_gamelog(src, last_n)
    /\ pc' = "done"
    /\ UNCHANGED <<src, outcome, page, feature_df, models, results, model_arg,
                   preds, fed, st_error, shown, window, log_cache, runs,
                   player_name, all_players, found, opponent_team, context,
                   last_n>>

NextGamelog == CallGetPlayerGamelog

SpecGamelog == InitGamelog /\ [][NextGamelog]_vars

\* ------------------------------------------------- the context of a player
\* The static list of the context calls, and the names typed for them:
\* a listed player in another case, and nobody.
ContextPlayers == SubSeq(PlayerPool, 1, 2)

ContextNames ==
    { <<"j","a"," ","m","o","r","a","n","t">>, <<"Z","e","d">> }

\* Opponents as typed: a team's name, parts of it, an abbreviation, nothing.
OpponentNames ==
    { <<"B","o","s","t","o","n"," ","C","e","l","t","i","c","s">>,
      <<"B","o","s","t","o","n">>,
      <<"J","a","z","z">>,
      <<"B","O","S">>,
      <<>> }

InitContext ==
    /\ src \in Sources
    /\ outcome \in [DOMAIN AllTeams -> TeamOutcomes]
    /\ page = "none"
    /\ pc = "idle"
    /\ feature_df = EmptyFrame
    /\ models = <<>>
    /\ results = <<>>
    /\ model_arg = NoModels
    /\ preds = <<>>
    /\ fed = <<>>
    /\ st_error = FALSE
    /\ shown = <<>>
    /\ window = DefaultWindow
    /\ log_cache = <<>>
    /\ runs = 0
    /\ player_name \in ContextNames
    /\ all_players = ContextPlayers
    /\ found = NotCalled
    /\ opponent_team \in OpponentNames
    /\ context = <<>>
    /\ last_n = DefaultLastN
    /\ gamelog = EmptyFrame

\* get_player_context(player_name, opponent_team); an exception that leaves
\* it ends the caller.
CallGetPlayerContext ==
    /\ pc = "idle"
    /\ \E r \in {get_player_context(player_name, opponent_team, all_players,
                                    src, outcome)} :
          /\ context' = r.context
          /\ pc' = IF r.raised THEN "error" ELSE "done"
    /\ UNCHANGED <<src, outcome, page, feature_df, models, results, model_arg,
                   preds, fed, st_error, shown, window, log_cache, runs,
                   player_name, all_players, found, opponent_team, last_n,
                   gamelog>>

NextContext == CallGetPlayerContext

SpecContext == InitContext /\ [][NextContext]_vars

\* ------------------------- cached models and a feature table that changed
\* Feature columns a table may have, and how many of them it has.
FeaturePool == << "A", "B", "C", "D" >>
DriftCols == 3

ColumnLists == {s \in [1..DriftCols -> Range(FeaturePool)] : Injective(s)}

PoolIndex(c) ==
    CHOOSE i \in DOMAIN (FeaturePool \o Targets) : (FeaturePool \o Targets)[i] = c

\* A numeric table of n rows with the given feature columns and the targets.
DriftTable(cols, n) ==
    [columns |-> cols \o Targets,
     rows |-> [i \in 1..n |->
                  [c \in Range(cols \o Targets) |-> Int2Cell(10 * i + PoolIndex(c))]]]

TrainTables ==
    {DriftTable(cols, n) : cols \in ColumnLists,
                           n \in {MinTrainRows - 1, MinTrainRows}}

LaterTables == {EmptyFrame} \cup {DriftTable(cols, 1) : cols \in ColumnLists}

InitDrift ==
    /\ feature_df \in TrainTables
    /\ src = [ok |-> FALSE, games |-> <<>>]
    /\ outcome = [t \in DOMAIN AllTeams |-> "empty"]
    /\ page = "none"
    /\ pc = "table"
    /\ models = <<>>
    /\ results = <<>>
    /\ model_arg = NoModels
    /\ preds = <<>>
    /\ fed = <<>>
    /\ st_error = FALSE
    /\ shown = <<>>
    /\ window = DefaultWindow
    /\ log_cache = <<>>
    /\ runs = 0
    /\ NoLookup

\* load_or_train_cached_model(df): the models stay in st.cache_resource.
CacheModels ==
    /\ pc = "table"
    /\ models' = load_or_train_cached_model(feature_df)
    /\ pc' = "cached"
    /\ UNCHANGED <<src, outcome, page, feature_df, results, model_arg, preds,
                   fed, st_error, shown, window, log_cache, runs, lookup_vars>>

\* A later run builds a feature table with other columns.
NewTable ==
    /\ pc = "cached"
    /\ feature_df' \in LaterTables
    /\ pc' = "drifted"
    /\ UNCHANGED <<src, outcome, page, models, results, model_arg, preds, fed,
                   st_error, shown, window, log_cache, runs, lookup_vars>>

\* predict_next_game(df, models) with the cached models.
PredictCached ==
    /\ pc = "drifted"
    /\ \E out \in [Range(Targets) -> PredValues] :
          \E r \in {predict_next_game(feature_df, ModelDict(models), out)} :
             /\ preds' = r.preds
             /\ fed' = r.fed
             /\ st_error' = r.error
    /\ model_arg' = ModelDict(models)
    /\ pc' = "predicted"
    /\ UNCHANGED <<src, outcome, page, feature_df, models, results, shown,
                   window, log_cache, runs, lookup_vars>>

NextDrift ==
    \/ CacheModels
    \/ NewTable
    \/ PredictCached

SpecDrift == InitDrift /\ [][NextDrift]_vars

\* ------------------------------------- predict_next_game on any model dict
PredictStats == << "PTS", "REB", "AST", "PRA" >>
TrainedOn == {<<"A", "B", "C">>, <<"A", "B", "D">>}

\* The dict that has a model of PredictStats[i] fitted on ch[i], for every i
\* with ch[i] not <<>>.
ItemsOf(ch) ==
    LET present == SelectSeq([i \in DOMAIN PredictStats |-> i],
                             LAMBDA i : ch[i] # <<>>)
    IN  [j \in DOMAIN present |->
            [stat |-> PredictStats[present[j]],
             feature_names |-> ch[present[j]]]]

ModelItems == {ItemsOf(ch) : ch \in [DOMAIN PredictStats -> {<<>>} \cup TrainedOn]}

PredictArgs ==
    {NoModels} \cup {ModelDict(m) : m \in ModelItems}
    \cup {MetricsDict(m) : m \in ModelItems}

PredictTables ==
    {EmptyFrame} \cup {DriftTable(cols, 2) : cols \in TrainedOn}

InitPredict ==
    /\ feature_df \in PredictTables
    /\ model_arg \in PredictArgs
    /\ src = [ok |-> FALSE, games |-> <<>>]
    /\ outcome = [t \in DOMAIN AllTeams |-> "empty"]
    /\ page = "none"
    /\ pc = "call"
    /\ models = <<>>
    /\ results = <<>>
    /\ preds = <<>>
    /\ fed = <<>>
    /\ st_error = FALSE
    /\ shown = <<>>
    /\ window = DefaultWindow
    /\ log_cache = <<>>
    /\ runs = 0
    /\ NoLookup

\* predict_next_game(df, models)
CallPredict ==
    /\ pc = "call"
    /\ \E out \in [Range(PredictStats) -> PredValues] :
          \E r \in {predict_next_game(feature_df, model_arg, out)} :
             /\ preds' = r.preds
             /\ fed' = r.fed
             /\ st_error' = r.error
    /\ pc' = "predicted"
    /\ UNCHANGED <<src, outcome, page, feature_df, models, results, model_arg,
                   shown, window, log_cache, runs, lookup_vars>>

NextPredict == CallPredict

SpecPredict == InitPredict /\ [][NextPredict]_vars

\* ------------------------------------------------------------ properties
TheLog == get_player_gamelog(src, DefaultLastN)
TheTeamDef == get_team_defensive_metrics(outcome)

\* The raw numeric columns of the game log.
RawColumns == << "MIN", "FGA", "FG_PCT", "FG3M", "FTA", "REB", "AST", "STL",
                 "BLK", "TOV", "PTS" >>

\* C1: the table build_feature_dataset returns has one row per game of the
\* log get_player_gamelog returned, in the log's order: row k carries the raw
\* stats of game k, the log's dates ascend, and the frame the left merge
\* gives has the log's games row by row.
C1_RowsPreserved ==
    pc = "built" =>
        /\ Len(feature_df.rows) = Len(TheLog.rows)
        /\ \A k \in DOMAIN TheLog.rows :
              /\ \A c \in Range(RawColumns) :
                    feature_df.rows[k][c] = TheLog.rows[k][c]
              /\ k > 1 => TheLog.rows[k - 1]["GAME_DATE"].n
                          <= TheLog.rows[k]["GAME_DATE"].n
        /\ ~IsEmpty(TheLog) =>
              \E merged \in {FeaturesMerged(TheLog, TheTeamDef)} :
                 /\ Column(merged, "Game_ID") = Column(TheLog, "Game_ID")
                 /\ Column(merged, "GAME_DATE") = Column(TheLog, "GAME_DATE")

\* A log the API sent out of date order was built into a table, with a
\* team-defense table to merge.
C1_Witness ==
    /\ pc = "built"
    /\ Len(feature_df.rows) >= 2
    /\ ~IsEmpty(TheTeamDef)
    /\ Column(ApiFrame(src.games), "Game_ID") # Column(TheLog, "Game_ID")

\* C2: in every row of the table build_feature_dataset returns, PRA is
\* PTS + REB + AST of that row.
C2_PraIsSum ==
    pc = "built" =>
        \A k \in DOMAIN feature_df.rows :
            feature_df.rows[k]["PRA"] =
                Add(Add(feature_df.rows[k]["PTS"], feature_df.rows[k]["REB"]),
                    feature_df.rows[k]["AST"])

\* A table was built that has a game with points, rebounds and assists.
C2_Witness ==
    /\ pc = "built"
    /\ \E k \in DOMAIN feature_df.rows :
          /\ feature_df.rows[k]["PTS"].n > 0
          /\ feature_df.rows[k]["REB"].n > 0
          /\ feature_df.rows[k]["AST"].n > 0

\* The mean of rows lo..hi of a column.
MeanOfRows(vals, lo, hi) ==
    Div(SumSeq(SubSeq(vals, lo, hi)), Int2Cell(hi - lo + 1))

\* C3: for window w and each tracked stat, the rolling value of the first
\* row is the row's own raw value, never null; of row k < w the mean of rows
\* 1..k; of row k >= w the mean of the w rows k-w+1..k.
C3_RollingWindow ==
    pc = "rolled" =>
        \A c \in Range(NumericCols) :
            \A k \in DOMAIN feature_df.rows :
                \E v \in {feature_df.rows[k][RollName(c, window)]} :
                    /\ ~IsNull(v)
                    /\ k = 1 => v = TheLog.rows[1][c]
                    /\ k < window => v = MeanOfRows(Column(TheLog, c), 1, k)
                    /\ k >= window =>
                          v = MeanOfRows(Column(TheLog, c), k - window + 1, k)

\* A log longer than the window was rolled with a window of several games.
C3_Witness ==
    /\ pc = "rolled"
    /\ window > 1
    /\ Len(feature_df.rows) > window
    /\ HasColumn(feature_df, RollName("PTS", window))

\* C4: with the models the trainer cached from a table and a later table of
\* other columns, predict_next_game reports no error and hands every model
\* one row of exactly the columns it was fitted on, in that order: a column
\* the later table lacks is 0, a column only the later table has is gone.
C4_SchemaDrift ==
    (pc = "predicted" /\ model_arg.items # <<>> /\ ~IsEmpty(feature_df)) =>
        /\ ~st_error
        /\ DictKeys(preds) = DictKeys(model_arg.items)
        /\ Len(fed) = Len(model_arg.items)
        /\ \A i \in DOMAIN model_arg.items :
              /\ fed[i].stat = model_arg.items[i].stat
              /\ fed[i].frame.columns = model_arg.items[i].feature_names
              /\ Len(fed[i].frame.rows) = 1
              /\ \A c \in Range(model_arg.items[i].feature_names) :
                    fed[i].frame.rows[1][c] =
                        IF HasColumn(feature_df, c)
                        THEN feature_df.rows[Len(feature_df.rows)][c]
                        ELSE Int2Cell(0)

\* Models fitted on columns the later table lacks one of, while the later
\* table has a column the models were not fitted on.
C4_Witness ==
    /\ pc = "predicted"
    /\ model_arg.items # <<>>
    /\ ~IsEmpty(feature_df)
    /\ \E c \in Range(model_arg.items[1].feature_names) : ~HasColumn(feature_df, c)
    /\ \E c \in Range(feature_df.columns) \ Range(Targets) :
          c \notin Range(model_arg.items[1].feature_names)

\* C5: for every target of the model dict, the row predict_next_game hands
\* to the target's model has the columns that model was fitted on, whatever
\* targets the dict has and whatever columns each was fitted on.
C5_PerTargetAlignment ==
    (pc = "predicted" /\ model_arg.kind = "models" /\ ~IsEmpty(feature_df)) =>
        /\ ~st_error
        /\ \A i \in DOMAIN model_arg.items :
              /\ i \in DOMAIN fed
              /\ fed[i].frame.columns = model_arg.items[i].feature_names

\* C6: every projection has a PRA that is the sum of its PTS, REB and AST,
\* also when the dict has a model of PRA.
C6_PraProjection ==
    (pc = "predicted" /\ preds # <<>>) =>
        /\ {"PTS", "REB", "AST", "PRA"} \subseteq DictKeys(preds)
        /\ preds[DictGet(preds, "PRA")].value =
              Add(Add(preds[DictGet(preds, "PTS")].value,
                      preds[DictGet(preds, "REB")].value),
                  preds[DictGet(preds, "AST")].value)

\* C7: on the predictions page the card of a target without a projection
\* does not read as a projection of 0.
C7_UnavailableShown ==
    (page = "predictions" /\ pc = "shown") =>
        \A i \in DOMAIN shown :
            shown[i].stat \notin DictKeys(preds) =>
                shown[i].text # Format1(Int2Cell(0))

\* C8: after training, a table of fewer than 5 rows has given no model, no
\* result and no exception, and a table of 5 or more rows has given a model
\* of every target column it has.
C8_ThresholdFive ==
    (page = "predictions" /\ pc \in {"trained", "error"}) =>
        /\ Len(feature_df.rows) < 5 =>
              (models = <<>> /\ results = <<>> /\ pc = "trained")
        /\ Len(feature_df.rows) >= 5 =>
              DictKeys(models) = {t \in Range(Targets) : HasColumn(feature_df, t)}

OppFields == {"Opp_Def_Rtg", "Opp_Pace"}

\* C9, as stated: with an empty team-defense table every opponent field of
\* every row of the returned table is null.
C9_OpponentNullReturned ==
    (pc = "built" /\ IsEmpty(TheTeamDef)) =>
        \A k \in DOMAIN feature_df.rows :
            \A c \in OppFields : IsNull(feature_df.rows[k][c])

\* C9, amended: with an empty team-defense table build_feature_dataset
\* returns one row per game; every opponent field is null in the frame
\* merge_opponent_defense gives and 0 in the returned table.
C9_OpponentNullThenZero ==
    (pc = "built" /\ IsEmpty(TheTeamDef)) =>
        /\ Len(feature_df.rows) = Len(TheLog.rows)
        /\ ~IsEmpty(TheLog) =>
              \E merged \in {FeaturesMerged(TheLog, TheTeamDef)} :
                 \A k \in DOMAIN TheLog.rows :
                    \A c \in OppFields :
                       /\ IsNull(merged.rows[k][c])
                       /\ feature_df.rows[k][c] = Int2Cell(0)

\* A log with games was built while no team's log could be had.
C9_Witness ==
    /\ pc = "built"
    /\ IsEmpty(TheTeamDef)
    /\ Len(feature_df.rows) >= 1
    /\ \E t \in DOMAIN AllTeams : outcome[t] = "error"

\* C10: with the Boston Celtics in the team-defense table, the row of every
\* game against BOS carries the defensive rating and pace of that entry.
C10_OpponentResolved ==
    (pc = "built" /\ outcome[1] = "ok") =>
        \E celtics \in {TeamStatsRow(AllTeams[1], TeamLogFrame(1))} :
            \A k \in DOMAIN TheLog.rows :
                \E m \in {TheLog.rows[k]["MATCHUP"].s} :
                    SubSeq(m, Len(m) - 2, Len(m)) = Opponents[1] =>
                        /\ ~IsNull(feature_df.rows[k]["Opp_Def_Rtg"])
                        /\ feature_df.rows[k]["Opp_Def_Rtg"] = celtics["DefRtg"]
                        /\ feature_df.rows[k]["Opp_Pace"] = celtics["Pace"]

\* C11: when the game-log fetch fails or has no game, get_player_gamelog
\* gives an empty log and build_feature_dataset gives the empty table, with
\* no column of the rolling, usage, composite or merge steps.
C11_EmptyLogEmptyTable ==
    (pc = "built" /\ (~src.ok \/ src.games = <<>>)) =>
        /\ IsEmpty(TheLog)
        /\ feature_df = EmptyFrame

\* A fetch that raised was built into the table without columns.
C11_Witness ==
    /\ pc = "built"
    /\ ~src.ok
    /\ feature_df.columns = <<>>

\* Null cells of frame a that frame b has too stay null in b.
NullsKept(a, b) ==
    \A k \in DOMAIN a.rows :
        \A c \in Range(a.columns) \cap Range(b.columns) :
            IsNull(a.rows[k][c]) => IsNull(b.rows[k][c])

\* C12: build_feature_dataset runs sort, rolling, usage, composite, opponent
\* merge, column drop, fill in this order: each step's columns appear at its
\* stage and not before, a null stays null until the last step, the last
\* step leaves no null, and MATCHUP is still there when the opponent key
\* has been derived and gone after the drop.
C12_StepOrder ==
    (pc = "built" /\ ~IsEmpty(TheLog)) =>
        \E st \in {BuildStages(TheLog, TheTeamDef)} :
            /\ st[8] = feature_df
            /\ st[5] = FeaturesMerged(TheLog, TheTeamDef)
            /\ \A k \in DOMAIN st[1].rows :
                  k > 1 => st[1].rows[k - 1]["GAME_DATE"].n
                           <= st[1].rows[k]["GAME_DATE"].n
            /\ ~HasColumn(st[1], RollName("PTS", DefaultWindow))
            /\ HasColumn(st[2], RollName("PTS", DefaultWindow))
            /\ ~HasColumn(st[2], "USG") /\ HasColumn(st[3], "USG")
            /\ ~HasColumn(st[3], "PRA") /\ HasColumn(st[4], "PRA")
            /\ ~HasColumn(st[4], "Opp_Def_Rtg") /\ HasColumn(st[5], "Opp_Def_Rtg")
            /\ HasColumn(st[5], "MATCHUP") /\ ~HasColumn(st[6], "MATCHUP")
            /\ (~IsEmpty(TheTeamDef) => HasColumn(st[5], "Opp_Team"))
            /\ \A i \in 1..6 : NullsKept(st[i], st[i + 1])
            /\ \E k \in DOMAIN st[7].rows :
                  \E c \in Range(st[7].columns) : IsNull(st[7].rows[k][c])
            /\ \A k \in DOMAIN st[8].rows :
                  \A c \in Range(st[8].columns) : ~IsNull(st[8].rows[k][c])

\* A log with a benched game was built with a team-defense table.
C12_Witness ==
    /\ pc = "built"
    /\ ~IsEmpty(TheTeamDef)
    /\ Len(feature_df.rows) >= 2
    /\ \E k \in DOMAIN feature_df.rows : feature_df.rows[k]["MIN"].n = 0

\* The rows of the log with minutes played, in order.
PlayedRows ==
    SelectSeq([k \in DOMAIN TheLog.rows |-> k],
              LAMBDA k : TheLog.rows[k]["MIN"].n > 0)

\* (FGA + 0.44 * FTA + TOV) / MIN * 100 of a row.
UsageOf(row) ==
    Mul(Div(Add(Add(row["FGA"], Mul(NumCell(44, 100), row["FTA"])), row["TOV"]),
            row["MIN"]),
        Int2Cell(100))

\* C13: add_usage_rate gives a game with minutes (FGA + 0.44*FTA + TOV) /
\* MIN * 100, and a game without minutes the mean of those values; the
\* returned table has the same USG, and 0 in every row when no game has
\* minutes.
C13_UsageRate ==
    (pc = "built" /\ ~IsEmpty(TheLog)) =>
        \E usg \in {Column(add_usage_rate(TheLog), "USG")} :
            \A k \in DOMAIN TheLog.rows :
                /\ TheLog.rows[k]["MIN"].n > 0 =>
                      /\ usg[k] = UsageOf(TheLog.rows[k])
                      /\ feature_df.rows[k]["USG"] = usg[k]
                /\ (TheLog.rows[k]["MIN"].n = 0 /\ PlayedRows # <<>>) =>
                      /\ usg[k] = Div(SumSeq([j \in DOMAIN PlayedRows |->
                                                 UsageOf(TheLog.rows[PlayedRows[j]])]),
                                      Int2Cell(Len(PlayedRows)))
                      /\ feature_df.rows[k]["USG"] = usg[k]
                /\ PlayedRows = <<>> =>
                      /\ IsNull(usg[k])
                      /\ feature_df.rows[k]["USG"] = Int2Cell(0)

\* A log with a game without minutes among games with minutes was built.
C13_Witness ==
    /\ pc = "built"
    /\ Len(PlayedRows) >= 2
    /\ Len(PlayedRows) < Len(feature_df.rows)

\* A log whose only game has no minutes was built: its USG is 0.
C13_WitnessNoMinutes ==
    /\ pc = "built"
    /\ ~IsEmpty(TheLog)
    /\ PlayedRows = <<>>
    /\ feature_df.rows[1]["USG"] = Int2Cell(0)

\* C14: the rows a model was fitted on are all older than the held-out rows,
\* and the metrics of a target are computed on the held-out rows only.
C14_ChronologicalHoldout ==
    (page = "predictions" /\ pc \in {"trained", "error"}) =>
        \E split \in {TrainTestSplit(Len(feature_df.rows))} :
            /\ \A i \in DOMAIN models :
                  \A a \in Range(models[i].train_rows) :
                      \A b \in Range(split.test) : a < b
            /\ \A i \in DOMAIN results :
                  Range(results[i].eval_rows) \subseteq Range(split.test)

\* C15: a build that follows an earlier build of the same game log and
\* team-defense table returns the table the earlier build returned, and the
\* log the next build will start from is the fetched log, without any
\* column a build added.
C15_BuildTwice ==
    /\ [](log_cache # <<>> => log_cache[1] = TheLog)
    /\ [][(pc = "start" /\ pc' = "built" /\ runs >= 1)
             => feature_df' = feature_df]_vars

\* A table of several games with opponent metrics was built a second time,
\* from the cached log.
C15_Witness ==
    /\ pc = "built"
    /\ runs = 2
    /\ Len(feature_df.rows) >= 2
    /\ HasColumn(feature_df, "PTS_roll5")
    /\ HasColumn(log_cache[1], "MATCHUP")
    /\ ~IsEmpty(TheTeamDef)

\* Positions of the listed players whose full name is the typed name in
\* another case or the same.
SameIgnoringCase ==
    {i \in DOMAIN all_players :
        LowerText(all_players[i].full_name) = LowerText(player_name)}

\* Positions of the listed players whose name is similar enough to the
\* typed name.
NearEnough ==
    {i \in DOMAIN all_players :
        RatioAtLeast(Ratio(all_players[i].full_name, player_name),
                     PlayerCutoff)}

\* C16: get_player_id returns the id of the first listed player whose full
\* name equals the typed name ignoring case, without calling the fuzzy
\* match; with no such player, the id of a player whose name is nearest to
\* the typed name, at similarity 0.6 or more; with none of those it raises
\* and returns no id.
C16_PlayerLookup ==
    pc = "done" =>
        IF SameIgnoringCase # {}
        THEN /\ ~found.raised
             /\ ~found.fuzzy
             /\ \E i \in SameIgnoringCase :
                   /\ found.id = all_players[i].id
                   /\ \A j \in SameIgnoringCase : i <= j
        ELSE IF NearEnough # {}
        THEN /\ ~found.raised
             /\ \E i \in NearEnough :
                   /\ found.id = all_players[i].id
                   /\ \A j \in NearEnough :
                         Ratio(all_players[j].full_name, player_name)[1]
                            * Ratio(all_players[i].full_name, player_name)[2]
                         <= Ratio(all_players[i].full_name, player_name)[1]
                            * Ratio(all_players[j].full_name, player_name)[2]
        ELSE /\ found.raised
             /\ found.id = NoId

\* A name typed in capitals, which the fuzzy match would not have found,
\* was resolved to the listed player.
C16_Witness ==
    /\ pc = "done"
    /\ player_name = <<"J","A"," ","M","O","R","A","N","T">>
    /\ NearEnough = {}
    /\ found.id = 101

\* A misspelt name was resolved by the fuzzy match.
C16_WitnessFuzzy ==
    /\ pc = "done"
    /\ SameIgnoringCase = {}
    /\ found.fuzzy
    /\ found.id = 102
    /\ Len(all_players) = 3

\* A name near no listed name was not found.
C16_WitnessNotFound ==
    /\ pc = "done"
    /\ all_players # <<>>
    /\ found.raised

\* The day of game g of the source.
DayOf(g) == ToDatetime(ApiRow(g)["GAME_DATE"]).n

\* The games of the source that fewer than last_n games of it come after.
MostRecent ==
    {g \in Range(src.games) :
        Cardinality({h \in Range(src.games) : DayOf(h) > DayOf(g)}) < last_n}

\* C17: get_player_gamelog returns the last_n most recent games of the
\* source by date (all of them when there are fewer), ascending by date,
\* in whatever order the source sent its rows.
C17_MostRecentGames ==
    (pc = "done" /\ src.ok) =>
        /\ Len(gamelog.rows) = Cardinality(MostRecent)
        /\ {gamelog.rows[i]["GAME_DATE"].n : i \in DOMAIN gamelog.rows}
              = {DayOf(g) : g \in MostRecent}
        /\ \A i, j \in DOMAIN gamelog.rows :
              i < j => gamelog.rows[i]["GAME_DATE"].n
                          < gamelog.rows[j]["GAME_DATE"].n

\* C18: for every model load_or_train_cached_model fitted, the columns
\* train_xgboost_models hands it for evaluation are the columns it was
\* fitted on, and the evaluation does not end in an exception.
C18_EvalColumnsAsTrained ==
    (page = "predictions" /\ pc \in {"trained", "error"}) =>
        /\ \A i \in DOMAIN models :
              EvalColumns(SelectNumeric(feature_df), models[i].stat)
                 = models[i].feature_names
        /\ pc = "trained"

\* C19: on a page that trains and then predicts, once the handler is over
\* and training had fitted a model, predict_next_game was given the dict
\* of the fitted models and its projection has a value for every fitted
\* target.
C19_ModelsReachPredictor ==
    (page \in {"predictions", "dashboard"} /\ pc \in {"shown", "error"}
        /\ models # <<>>) =>
        /\ model_arg = ModelDict(models)
        /\ \A i \in DOMAIN models : models[i].stat \in DictKeys(preds)

ContextKeys == {"player", "season_avg", "recent_games", "opponent_metrics"}

\* The teams of the team-defense table similar enough to the typed opponent.
TeamsNearEnough ==
    {i \in DOMAIN TheTeamDef.rows :
        RatioAtLeast(Ratio(TheTeamDef.rows[i]["Team"].s, opponent_team),
                     ContextCutoff)}

\* C20: get_player_context never raises; it returns a context of the keys
\* player, season_avg, recent_games and opponent_metrics, in which
\* opponent_metrics is empty unless a team of the table matched the
\* opponent at similarity 0.5 or more, and season_avg and recent_games are
\* empty when the game log is empty.
C20_ContextNeverRaises ==
    pc # "idle" =>
        /\ pc = "done"
        /\ DOMAIN context = ContextKeys
        /\ context.player = player_name
        /\ TeamsNearEnough = {} => context.opponent_metrics = <<>>
        /\ context.opponent_metrics # <<>> =>
              \E i \in TeamsNearEnough :
                 context.opponent_metrics = TheTeamDef.rows[i]
        /\ IsEmpty(TheLog) =>
              /\ context.season_avg = <<>>
              /\ context.recent_games = EmptyFrame

\* A player nobody is listed as: the context of empties came back.
C20_Witness ==
    /\ pc = "done"
    /\ get_player_id(player_name, all_players).raised
    /\ context = EmptyContext(player_name)
    /\ src.games # <<>>
    /\ TeamsNearEnough # {}

\* A listed player with games, against an opponent no team matches.
C20_WitnessNoOpponent ==
    /\ pc = "done"
    /\ ~get_player_id(player_name, all_players).raised
    /\ ~IsEmpty(TheTeamDef)
    /\ opponent_team # <<>>
    /\ TeamsNearEnough = {}
    /\ context.opponent_metrics = <<>>
    /\ Len(context.recent_games.rows) >= 2

\* A listed player against a matched opponent.
C20_WitnessMatched ==
    /\ pc = "done"
    /\ context.opponent_metrics # <<>>
    /\ context.season_avg # <<>>
====
